---- MODULE Spec2Model ----
(***************************************************************************)
(* A model of the chatbot's intent vocabulary (chatbot/patterns.py) and of *)
(* its prediction / response selection policy (chatbot/brain.py).          *)
(*                                                                         *)
(* Strings that the program orders (tags, stems, words, texts) are tuples  *)
(* of character codes, so that Python's sorted() on str is the             *)
(* lexicographic order on code points.  Answers are opaque and are TLA+    *)
(* strings.  Probabilities are integers in hundredths (0.9 is 90).         *)
(***************************************************************************)
EXTENDS Integers, Sequences, FiniteSets, TLC

VARIABLES
    patterns,   \* Patterns._patterns: [tags: tag -> [stems, answers], stems]
    snapshot,   \* the pickle file written by _save, NoFile while not written
    phase,      \* "fresh" (constructed), "ready" (convert_intents returned
                \* and the model is fitted), "failed" (convert_intents raised)
    op,         \* the last method called
    err,        \* the exception it raised, "" when it returned
    catalog,    \* convert_intents: the content of the json file
    pre,        \* convert_intents: _patterns when the call started
    sentence,   \* convert_sentence / answer: the text given
    vec,        \* convert_sentence / answer: the boolean table computed
    results,    \* answer: the probabilities returned by the classifier
    index,      \* choose_answer / _get_tag_by_index / answer: the index
    intent,     \* the tag _get_tag_by_index returned
    ans,        \* choose_answer / answer: the string returned
    trainX,     \* convert_intents: first list returned (stems_bin rows)
    trainY,     \* convert_intents: second list returned (tags_bin rows)
    stemmed,    \* convert_sentence: the local stems, _stemming(sentence)
    keys,       \* the keys of the dict _patterns
    paths,      \* the paths given to the last call that reads files
    pickle,     \* the pickle file given to the last constructor
    stage,      \* the step an answer() request has reached
    conns,      \* wschatbot: the locals of each connection's handler
    classifier, \* wschatbot: the fitted model, a function of the message
    closed      \* wschatbot: the connections closed, and what their handlers met

\* the variables of the constructors from files, of the steps of a request
\* and of the websocket server
aux == << keys, paths, pickle, stage, conns, classifier, closed >>

vars == << patterns, snapshot, phase, op, err, catalog, pre, sentence, vec,
           results, index, intent, ans, trainX, trainY, stemmed, aux >>

-----------------------------------------------------------------------------
(* Bounds of the model *)

\* the longest catalog ("intents" list) ingested
MaxRecords == 2

-----------------------------------------------------------------------------
(* Sequences and the order of Python strings *)

Range(s) == { s[i] : i \in DOMAIN s }

Min(a, b) == IF a < b THEN a ELSE b

\* str.__lt__ : code point by code point, a proper prefix is smaller
LexLess(a, b) ==
    \E k \in 0..Min(Len(a), Len(b)) :
        /\ \A j \in 1..k : a[j] = b[j]
        /\ \/ (k = Len(a) /\ k < Len(b))
           \/ (k < Len(a) /\ k < Len(b) /\ a[k+1] < b[k+1])

LexMin(S) == CHOOSE x \in S : \A y \in S \ {x} : LexLess(x, y)

RECURSIVE SortedOfSet(_)
\* sorted(set(...)) : the elements of S in increasing order
SortedOfSet(S) ==
    IF S = {} THEN << >>
    ELSE LET m == LexMin(S) IN << m >> \o SortedOfSet(S \ {m})

\* list.index(x) as a position 1..Len(s); 0 when x is not in s
IndexOf(s, x) ==
    IF \E i \in DOMAIN s : s[i] = x
    THEN CHOOSE i \in DOMAIN s : s[i] = x /\ \A j \in 1..(i-1) : s[j] # x
    ELSE 0

RECURSIVE Flatten(_)
Flatten(ss) == IF ss = << >> THEN << >> ELSE Head(ss) \o Flatten(Tail(ss))

\* [False] * n with position i set to True
OneHot(n, i) == [ k \in 1..n |-> (k = i) ]

-----------------------------------------------------------------------------
(* The data of the model: words, texts, tags, answers *)

NoAnswer == << 110, 111, 97, 110, 115, 119, 101, 114 >>      \* "noanswer"
Hello    == << 104, 101, 108, 108, 111 >>                    \* "hello"
Au       == << 97, 117 >>                                    \* "au"

TextZooChats == << 122, 111, 111, 32, 99, 104, 97, 116, 115 >>   \* "zoo chats"
TextChat     == << 67, 104, 97, 116 >>                           \* "Chat"
TextLeChat   == << 76, 101, 32, 99, 104, 97, 116 >>              \* "Le chat"
TextLeZoo    == << 108, 101, 32, 122, 111, 111, 33 >>            \* "le zoo!"
TextFoo      == << 102, 111, 111 >>                              \* "foo"

AllKeys == { "tag", "patterns", "responses", "context" }

\* the records a catalog is made of
RNoAnswer == [ keys |-> AllKeys, tag |-> NoAnswer, patterns |-> << >>,
               responses |-> << "n1", "n2" >> ]
RHello    == [ keys |-> AllKeys, tag |-> Hello,
               patterns |-> << TextZooChats, TextChat >>,
               responses |-> << "h1", "h2" >> ]
RHelloBis == [ keys |-> AllKeys, tag |-> Hello, patterns |-> << TextLeZoo >>,
               responses |-> << "h3" >> ]
RAu       == [ keys |-> AllKeys, tag |-> Au, patterns |-> << TextLeChat >>,
               responses |-> << >> ]
REmpty    == [ keys |-> {}, tag |-> << >>, patterns |-> << >>,
               responses |-> << >> ]
RNoTag    == [ keys |-> { "patterns", "responses" }, tag |-> << >>,
               patterns |-> << TextChat >>, responses |-> << "x1" >> ]
RNoResponses == [ keys |-> { "tag", "patterns" }, tag |-> Au,
                  patterns |-> << TextChat >>, responses |-> << >> ]

Records == { RNoAnswer, RHello, RHelloBis, RAu, REmpty, RNoTag, RNoResponses }

\* the "intents" lists a json file can hold
Catalogs == UNION { [ 1..n -> Records ] : n \in 0..MaxRecords }

\* the texts given to convert_sentence and answer
Sentences == { TextZooChats, TextLeChat, TextFoo }

\* the probabilities a classifier returns, in hundredths
ProbValues == { 0, 90, 95 }

\* the indexes given to choose_answer and _get_tag_by_index
IndexValues == { -2, -1, 0, 1, 2, 3 }

\* nltk.corpus.stopwords.words("french"), the entries the texts can meet
StopList == { << 108, 101 >>, << 108, 97 >> }                \* "le", "la"

-----------------------------------------------------------------------------
(* Patterns._stemming *)

\* a character of the class \w (ASCII): digits, letters, underscore
IsWordChar(c) ==
    \/ c \in 48..57
    \/ c \in 65..90
    \/ c = 95
    \/ c \in 97..122

RECURSIVE TokScan(_, _, _, _)
TokScan(text, i, cur, acc) ==
    IF i > Len(text)
    THEN IF cur = << >> THEN acc ELSE Append(acc, cur)
    ELSE IF IsWordChar(text[i])
         THEN TokScan(text, i + 1, Append(cur, text[i]), acc)
         ELSE TokScan(text, i + 1, << >>,
                      IF cur = << >> THEN acc ELSE Append(acc, cur))

\* nltk.RegexpTokenizer(r"\w+").tokenize : the maximal runs of \w
Tokenize(text) == TokScan(text, 1, << >>, << >>)

\* str.lower
Lower(w) == [ i \in 1..Len(w) |-> IF w[i] \in 65..90 THEN w[i] + 32 ELSE w[i] ]

\* FrenchStemmer.stem on the words of the model: the Snowball residual
\* suffix rule (a final s not preceded by a, i, o, u or s is deleted)
Stem(w) ==
    IF /\ Len(w) >= 2
       /\ w[Len(w)] = 115
       /\ w[Len(w) - 1] \notin { 97, 105, 111, 117, 115 }
    THEN SubSeq(w, 1, Len(w) - 1)
    ELSE w

InStopList(w) == w \in StopList

Stemming(pattern) ==
    LET tokens == Tokenize(pattern)
        kept   == SelectSeq(tokens, LAMBDA w : ~ InStopList(w))
    IN  [ i \in 1..Len(kept) |-> Stem(Lower(kept[i])) ]

-----------------------------------------------------------------------------
(* Patterns: the vocabulary and its ingestion *)

\* _patterns of Patterns() built without a path
EmptyPatterns == [ tags |-> << >>, stems |-> << >> ]

\* the pickle file: absent until _save writes it
NoFile == [ written |-> FALSE, content |-> EmptyPatterns ]

Saved(p) == [ written |-> TRUE, content |-> p ]

\* the keys of the dict Patterns() builds and convert_intents pickles
BothKeys == { "tags", "stems" }

\* no path was given yet
NoPaths == [ model |-> "", pickle |-> "", catalog |-> "" ]

\* no pickle file was loaded yet
NoPickle == [ keys |-> BothKeys, content |-> EmptyPatterns ]

\* what a path argument can be: not given, a path that names no existing
\* file, a path that names an existing file
PathStates == { "", "missing", "file" }

\* os.path.isfile(path)
IsFile(path) == path = "file"

\* a constructor that falls back on the empty vocabulary when the path
\* names no file
PatternsInitLenient(path, f) ==
    IF path = "" \/ ~IsFile(path)
    THEN [ p |-> EmptyPatterns, keys |-> BothKeys, err |-> "" ]
    ELSE [ p |-> f.content, keys |-> f.keys, err |-> "" ]

\* Patterns.__init__(path) when the path, if it names a file, names f:
\* the dict the object holds, or the exception
PatternsInit(path, f) ==
    IF path = ""
    THEN [ p |-> EmptyPatterns, keys |-> BothKeys, err |-> "" ]
    ELSE IF ~IsFile(path)
         THEN [ p |-> EmptyPatterns, keys |-> BothKeys,
                err |-> "FileNotFoundError" ]
         ELSE [ p |-> f.content, keys |-> f.keys, err |-> "" ]

GetAllTags(p) == SortedOfSet(DOMAIN p.tags)

GetStems(p, tag) == p.tags[tag].stems

GetAllStems(p) == p.stems

\* an assignment in place of the += of _set_answers
SetAnswersReplace(p, tag, answers) ==
    [ p EXCEPT !.tags[tag].answers = answers ]

SetAnswers(p, tag, answers) ==
    [ p EXCEPT !.tags[tag].answers = @ \o answers ]

RECURSIVE SetStemsLoop(_, _, _)
\* the two loops of _set_stems over the words; tag_stems and all_stems are
\* the lists of _patterns themselves, so each test sees the earlier appends
SetStemsLoop(p, tag, ws) ==
    IF ws = << >> THEN p
    ELSE LET w  == Head(ws)
             p1 == IF w \notin Range(GetStems(p, tag))
                   THEN [ p EXCEPT !.tags[tag].stems = Append(@, w) ]
                   ELSE p
             p2 == IF w \notin Range(GetAllStems(p1))
                   THEN [ p1 EXCEPT !.stems = Append(@, w) ]
                   ELSE p1
         IN  SetStemsLoop(p2, tag, Tail(ws))

SetStems(p, tag, stems) == SetStemsLoop(p, tag, Flatten(stems))

\* the result of a step that may raise: the vocabulary as the step left it
\* and the exception ("" when none)
Ok(p) == [ p |-> p, err |-> "" ]
Raise(p, e) == [ p |-> p, err |-> e ]

AddTag(p, tag) ==
    [ p EXCEPT !.tags = [ t \in DOMAIN p.tags \cup {tag} |->
          IF t \in DOMAIN p.tags THEN p.tags[t]
          ELSE [ stems |-> << >>, answers |-> << >> ] ] ]

SetIntent(p, rec) ==
    IF "tag" \notin rec.keys THEN Raise(p, "KeyError")
    ELSE LET tag == rec.tag
             p1  == IF tag \notin Range(GetAllTags(p)) THEN AddTag(p, tag) ELSE p
         IN  IF "responses" \notin rec.keys THEN Raise(p1, "KeyError")
             ELSE LET p2 == SetAnswers(p1, tag, rec.responses)
                  IN  IF "patterns" \notin rec.keys THEN Raise(p2, "KeyError")
                      ELSE LET stems == [ i \in 1..Len(rec.patterns) |->
                                            Stemming(rec.patterns[i]) ]
                           IN  Ok(SetStems(p2, tag, stems))

RECURSIVE ParseIntentsFile(_, _)
\* the loop of _parse_intents_file over intents["intents"]; an empty
\* record is skipped, the first exception ends the loop
ParseIntentsFile(p, intents) ==
    IF intents = << >> THEN Ok(p)
    ELSE LET rec == Head(intents)
             r   == IF rec.keys # {} THEN SetIntent(p, rec) ELSE Ok(p)
         IN  IF r.err # "" THEN r ELSE ParseIntentsFile(r.p, Tail(intents))

\* _sort_all_stems without its loop over the tags
SortAllStemsGlobalOnly(p) ==
    [ p EXCEPT !.stems = SortedOfSet(Range(GetAllStems(p))) ]

SortAllStems(p) ==
    [ stems |-> SortedOfSet(Range(GetAllStems(p))),
      tags  |-> [ t \in DOMAIN p.tags |->
                    [ p.tags[t] EXCEPT !.stems = SortedOfSet(Range(GetStems(p, t))) ] ] ]

\* the rows of a tag with the stem looked up in the tag's own list
RowsOfTagLocalIndex(p, tag) ==
    LET all_tags  == GetAllTags(p)
        all_stems == GetAllStems(p)
        st        == GetStems(p, tag)
    IN  [ i \in 1..Len(st) |->
            << OneHot(Len(all_stems), IndexOf(st, st[i])),
               OneHot(Len(all_tags), IndexOf(all_tags, tag)) >> ]

\* the rows one tag adds to training_data, in the order of its stems
RowsOfTag(p, tag) ==
    LET all_tags  == GetAllTags(p)
        all_stems == GetAllStems(p)
        st        == GetStems(p, tag)
    IN  [ i \in 1..Len(st) |->
            << OneHot(Len(all_stems), IndexOf(all_stems, st[i])),
               OneHot(Len(all_tags), IndexOf(all_tags, tag)) >> ]

\* training_data before the shuffle
TrainingRows(p) ==
    LET all_tags == GetAllTags(p)
    IN  Flatten([ k \in 1..Len(all_tags) |-> RowsOfTag(p, all_tags[k]) ])

\* random.shuffle: the rows in the order perm, a permutation of 1..Len(rows)
Shuffle(rows, perm) == [ i \in 1..Len(rows) |-> rows[perm[i]] ]

\* training_data[:,0] and training_data[:,1]
Column(rows, c) == [ i \in 1..Len(rows) |-> rows[i][c] ]

-----------------------------------------------------------------------------
(* Patterns: encoding a sentence, choosing an answer *)

\* convert_sentence looking the stems up among the words of the text
ConvertSentenceVecWords(p, text) ==
    LET words == Tokenize(text)
        all   == GetAllStems(p)
    IN  [ i \in 1..Len(all) |-> all[i] \in Range(words) ]

ConvertSentenceVec(p, text) ==
    LET stems == Stemming(text)
        all   == GetAllStems(p)
    IN  [ i \in 1..Len(all) |-> all[i] \in Range(stems) ]

\* _get_tag_by_index without its test of the sign: a negative index counts
\* from the end of the list
GetTagByIndexWrap(p, i) ==
    LET n == Len(GetAllTags(p))
        k == IF i >= 0 THEN i ELSE n + i
    IN  IF 0 <= k /\ k < n
        THEN [ tag |-> GetAllTags(p)[k + 1], err |-> "" ]
        ELSE [ tag |-> << >>, err |-> "IndexError" ]

\* _get_tag_by_index: [tag, err]; a list index out of range raises
GetTagByIndex(p, i) ==
    IF i >= 0
    THEN IF i < Len(GetAllTags(p))
         THEN [ tag |-> GetAllTags(p)[i + 1], err |-> "" ]
         ELSE [ tag |-> << >>, err |-> "IndexError" ]
    ELSE [ tag |-> NoAnswer, err |-> "" ]

\* _get_answers returning the answers of every tag
GetAnswersOfAll(p, tag) ==
    IF tag \in DOMAIN p.tags
    THEN [ answers |-> Flatten([ k \in 1..Len(GetAllTags(p)) |->
                                   p.tags[GetAllTags(p)[k]].answers ]),
           err |-> "" ]
    ELSE [ answers |-> << >>, err |-> "AttributeError" ]

\* _get_answers: [answers, err]; .get(tag) of an unknown tag is None, and
\* None.get raises
GetAnswers(p, tag) ==
    IF tag \in DOMAIN p.tags
    THEN [ answers |-> p.tags[tag].answers, err |-> "" ]
    ELSE [ answers |-> << >>, err |-> "AttributeError" ]

-----------------------------------------------------------------------------
(* ChatBotBrain._predict *)

\* the threshold of _predict, in hundredths
Threshold == 90

RECURSIVE MaxOf(_)
MaxOf(s) == IF Len(s) = 1 THEN s[1]
            ELSE LET m == MaxOf(Tail(s)) IN IF s[1] >= m THEN s[1] ELSE m

\* the last index holding the maximum, 0-based
ArgMaxLast(res) ==
    (CHOOSE i \in DOMAIN res :
        res[i] = MaxOf(res) /\ \A j \in (i + 1)..Len(res) : res[j] # MaxOf(res)) - 1

\* results.index(max(results)), 0-based
ArgMax(res) == IndexOf(res, MaxOf(res)) - 1

\* _predict without its threshold
PredictArgMax(res) == ArgMax(res)

\* _predict with the threshold included
PredictInclusive(res) ==
    LET i == ArgMax(res) IN IF res[i + 1] >= Threshold THEN i ELSE -1

Predict(res) ==
    LET i == ArgMax(res) IN IF res[i + 1] > Threshold THEN i ELSE -1

-----------------------------------------------------------------------------
(* The methods as the steps of the model *)

\* choose_answer with a default: an empty answer list yields the empty
\* answer instead of the exception of random.choice
ChooseAnswerOutcomesDefault(p, i) ==
    LET t == GetTagByIndex(p, i)
    IN  IF t.err # ""
        THEN { [ intent |-> t.tag, ans |-> "", err |-> t.err ] }
        ELSE LET a == GetAnswers(p, t.tag)
             IN  IF a.err # ""
                 THEN { [ intent |-> t.tag, ans |-> "", err |-> a.err ] }
                 ELSE IF a.answers = << >>
                 THEN { [ intent |-> t.tag, ans |-> "", err |-> "" ] }
                 ELSE { [ intent |-> t.tag, ans |-> a.answers[k], err |-> "" ] :
                          k \in DOMAIN a.answers }

\* what choose_answer(index) can do: the tag resolved, and either the
\* answer random.choice picked or the exception raised
ChooseAnswerOutcomes(p, i) ==
    LET t == GetTagByIndex(p, i)
    IN  IF t.err # ""
        THEN { [ intent |-> t.tag, ans |-> "", err |-> t.err ] }
        ELSE LET a == GetAnswers(p, t.tag)
             IN  IF a.err # ""
                 THEN { [ intent |-> t.tag, ans |-> "", err |-> a.err ] }
                 ELSE IF a.answers = << >>
                 THEN { [ intent |-> t.tag, ans |-> "", err |-> "IndexError" ] }
                 ELSE { [ intent |-> t.tag, ans |-> a.answers[k], err |-> "" ] :
                          k \in DOMAIN a.answers }

\* convert_intents with _save called before _sort_all_stems
ConvertIntentsOutcomesSaveFirst(p, file, intents) ==
    LET r == ParseIntentsFile(p, intents)
    IN  IF r.err # ""
        THEN { [ p |-> r.p, file |-> file, x |-> << >>, y |-> << >>,
                 err |-> r.err ] }
        ELSE LET q    == SortAllStems(r.p)
                 rows == TrainingRows(q)
             IN  IF rows = << >>
                 THEN { [ p |-> q, file |-> Saved(r.p), x |-> << >>,
                          y |-> << >>, err |-> "IndexError" ] }
                 ELSE { [ p |-> q, file |-> Saved(r.p),
                          x |-> Column(Shuffle(rows, perm), 1),
                          y |-> Column(Shuffle(rows, perm), 2),
                          err |-> "" ] : perm \in Permutations(1..Len(rows)) }

\* what convert_intents(path) can do once the file is read: the vocabulary
\* left in memory, the pickle file, and the two lists returned or the
\* exception raised
ConvertIntentsOutcomes(p, file, intents) ==
    LET r == ParseIntentsFile(p, intents)
    IN  IF r.err # ""
        THEN { [ p |-> r.p, file |-> file, x |-> << >>, y |-> << >>,
                 err |-> r.err ] }
        ELSE LET q    == SortAllStems(r.p)
                 rows == TrainingRows(q)
             IN  IF rows = << >>
                 THEN { [ p |-> q, file |-> Saved(q), x |-> << >>, y |-> << >>,
                          err |-> "IndexError" ] }
                 ELSE { [ p |-> q, file |-> Saved(q),
                          x |-> Column(Shuffle(rows, perm), 1),
                          y |-> Column(Shuffle(rows, perm), 2),
                          err |-> "" ] : perm \in Permutations(1..Len(rows)) }

Init ==
    /\ patterns = EmptyPatterns
    /\ snapshot = NoFile
    /\ phase = "fresh"
    /\ op = "init"
    /\ err = ""
    /\ catalog = << >>
    /\ pre = EmptyPatterns
    /\ sentence = << >>
    /\ vec = << >>
    /\ results = << >>
    /\ index = -1
    /\ intent = << >>
    /\ ans = ""
    /\ trainX = << >>
    /\ trainY = << >>
    /\ stemmed = << >>
    /\ keys = BothKeys
    /\ paths = NoPaths
    /\ pickle = NoPickle
    /\ stage = "Idle"
    /\ conns = << >>
    /\ classifier = << >>
    /\ closed = << >>

\* Patterns().convert_intents(path), and ChatBotBrain.train around it
ConvertIntents ==
    /\ phase = "fresh"
    /\ \E c \in Catalogs :
         \E o \in ConvertIntentsOutcomes(patterns, snapshot, c) :
            /\ catalog' = c
            /\ pre' = patterns
            /\ patterns' = o.p
            /\ snapshot' = o.file
            /\ trainX' = o.x
            /\ trainY' = o.y
            /\ err' = o.err
            /\ phase' = IF o.err = "" THEN "ready" ELSE "failed"
    /\ op' = "convert_intents"
    /\ sentence' = << >>
    /\ vec' = << >>
    /\ results' = << >>
    /\ index' = -1
    /\ intent' = << >>
    /\ ans' = ""
    /\ stemmed' = << >>
    /\ UNCHANGED aux

\* a convert_sentence that learns: the stems of the sentence that the
\* vocabulary lacks are appended to its stems
ConvertSentenceLearning ==
    /\ \E s \in Sentences :
         /\ sentence' = s
         /\ stemmed' = Stemming(s)
         /\ vec' = ConvertSentenceVec(patterns, s)
         /\ patterns' = [ patterns EXCEPT !.stems =
                            @ \o SelectSeq(Stemming(s),
                                   LAMBDA w : w \notin Range(patterns.stems)) ]
    /\ op' = "convert_sentence"
    /\ err' = ""
    /\ results' = << >>
    /\ index' = -1
    /\ intent' = << >>
    /\ ans' = ""
    /\ trainX' = << >>
    /\ trainY' = << >>
    /\ UNCHANGED << snapshot, phase, catalog, pre, aux >>

\* Patterns.convert_sentence(sentence)
ConvertSentence ==
    /\ \E s \in Sentences :
         /\ sentence' = s
         /\ stemmed' = Stemming(s)
         /\ vec' = ConvertSentenceVec(patterns, s)
    /\ op' = "convert_sentence"
    /\ err' = ""
    /\ results' = << >>
    /\ index' = -1
    /\ intent' = << >>
    /\ ans' = ""
    /\ trainX' = << >>
    /\ trainY' = << >>
    /\ UNCHANGED << patterns, snapshot, phase, catalog, pre, aux >>

\* Patterns._get_tag_by_index(index)
GetTag ==
    /\ \E i \in IndexValues :
         /\ index' = i
         /\ intent' = GetTagByIndex(patterns, i).tag
         /\ err' = GetTagByIndex(patterns, i).err
    /\ op' = "get_tag_by_index"
    /\ stemmed' = << >>
    /\ sentence' = << >>
    /\ vec' = << >>
    /\ results' = << >>
    /\ ans' = ""
    /\ trainX' = << >>
    /\ trainY' = << >>
    /\ UNCHANGED << patterns, snapshot, phase, catalog, pre, aux >>

\* Patterns.choose_answer(index)
ChooseAnswer ==
    /\ \E i \in IndexValues :
         \E o \in ChooseAnswerOutcomes(patterns, i) :
            /\ index' = i
            /\ intent' = o.intent
            /\ ans' = o.ans
            /\ err' = o.err
    /\ op' = "choose_answer"
    /\ stemmed' = << >>
    /\ sentence' = << >>
    /\ vec' = << >>
    /\ results' = << >>
    /\ trainX' = << >>
    /\ trainY' = << >>
    /\ UNCHANGED << patterns, snapshot, phase, catalog, pre, aux >>

\* ChatBotBrain.answer(sentence): _which_intent, _predict, choose_answer.
\* The classifier is any function of the table: it returns one
\* probability per tag.
Answer ==
    /\ phase = "ready"
    /\ \E s \in Sentences :
         \E res \in [ 1..Len(GetAllTags(patterns)) -> ProbValues ] :
            \E o \in ChooseAnswerOutcomes(patterns, Predict(res)) :
               /\ sentence' = s
               /\ stemmed' = Stemming(s)
               /\ vec' = ConvertSentenceVec(patterns, s)
               /\ results' = res
               /\ index' = Predict(res)
               /\ intent' = o.intent
               /\ ans' = o.ans
               /\ err' = o.err
    /\ op' = "answer"
    /\ trainX' = << >>
    /\ trainY' = << >>
    /\ UNCHANGED << patterns, snapshot, phase, catalog, pre, aux >>

\* the pickle file convert_intents wrote, as pickle.load returns it
PickleLoad(file) == [ keys |-> BothKeys, content |-> file.content ]

\* ChatBotBrain("model.h5", "intents.pkl"), or Patterns("intents.pkl"), on
\* the pickle file convert_intents wrote: another object replaces the one
\* that wrote the file
Restore ==
    /\ snapshot.written
    /\ LET o == PatternsInit("file", PickleLoad(snapshot))
       IN  /\ patterns' = o.p
           /\ keys' = o.keys
           /\ err' = o.err
    /\ paths' = [ NoPaths EXCEPT !.pickle = "file" ]
    /\ pickle' = PickleLoad(snapshot)
    /\ pre' = patterns
    /\ op' = "restore"
    /\ sentence' = << >>
    /\ stemmed' = << >>
    /\ vec' = << >>
    /\ results' = << >>
    /\ index' = -1
    /\ intent' = << >>
    /\ ans' = ""
    /\ trainX' = << >>
    /\ trainY' = << >>
    /\ UNCHANGED << snapshot, phase, catalog, stage, conns, classifier,
                    closed >>

Next ==
    \/ ConvertIntents
    \/ Restore
    \/ ConvertSentence
    \/ GetTag
    \/ ChooseAnswer
    \/ Answer

Spec == Init /\ [][Next]_vars

-----------------------------------------------------------------------------
(* Building the objects from files: Patterns(path), ChatBotBrain(model_path,
   pickle_path) and convert_intents(path) when the paths may name nothing *)

\* the vocabulary convert_intents pickles for a catalog it parses
Finalized(intents) == SortAllStems(ParseIntentsFile(EmptyPatterns, intents).p)

\* the pickle files the path can name: dicts convert_intents wrote, and
\* dicts of another origin that lack "stems", "tags" or both
PickleFiles ==
    { [ keys |-> BothKeys, content |-> Finalized(<< RNoAnswer, RHello >>) ],
      [ keys |-> BothKeys, content |-> Finalized(<< RHello, RAu >>) ],
      [ keys |-> { "tags" },
        content |-> [ Finalized(<< RNoAnswer, RHello >>)
                        EXCEPT !.stems = << >> ] ],
      [ keys |-> { "stems" },
        content |-> [ Finalized(<< RNoAnswer, RHello >>)
                        EXCEPT !.tags = << >> ] ],
      [ keys |-> {}, content |-> EmptyPatterns ] }

\* ChatBotBrain.__init__(model_path, pickle_path): both paths are tested as
\* soon as one is given, before Patterns and load_model are called
BrainInit(model_path, pickle_path, f) ==
    IF (model_path # "" \/ pickle_path # "")
       /\ (~IsFile(model_path) \/ ~IsFile(pickle_path))
    THEN [ p |-> EmptyPatterns, keys |-> BothKeys,
           err |-> "FileNotFoundError" ]
    ELSE PatternsInit(pickle_path, f)

\* convert_intents(path): _parse_intents_file tests the path first
ConvertIntentsAt(p, file, path, intents) ==
    IF ~IsFile(path)
    THEN { [ p |-> p, file |-> file, x |-> << >>, y |-> << >>,
             err |-> "FileNotFoundError" ] }
    ELSE ConvertIntentsOutcomes(p, file, intents)

\* convert_sentence on an object whose dict has the keys k: _get_all_stems
\* is None without "stems", and the comprehension iterates over it
ConvertSentenceOn(p, k, s) ==
    IF "stems" \in k
    THEN [ vec |-> ConvertSentenceVec(p, s), err |-> "" ]
    ELSE [ vec |-> << >>, err |-> "TypeError" ]

\* _get_tag_by_index on an object whose dict has the keys k: _get_all_tags
\* calls keys() on None without "tags"
GetTagByIndexOn(p, k, i) ==
    IF i >= 0 /\ "tags" \notin k
    THEN [ tag |-> << >>, err |-> "AttributeError" ]
    ELSE GetTagByIndex(p, i)

\* the observations of the requests, when the call is not a request
NoRequest ==
    /\ sentence' = << >>
    /\ stemmed' = << >>
    /\ vec' = << >>
    /\ results' = << >>
    /\ index' = -1
    /\ intent' = << >>
    /\ ans' = ""

\* Patterns(path)
NewPatterns ==
    /\ phase = "fresh"
    /\ \E path \in PathStates, f \in PickleFiles :
         LET o == PatternsInit(path, f)
         IN  /\ paths' = [ NoPaths EXCEPT !.pickle = path ]
             /\ pickle' = IF IsFile(path) THEN f ELSE NoPickle
             /\ err' = o.err
             /\ patterns' = IF o.err = "" THEN o.p ELSE patterns
             /\ keys' = IF o.err = "" THEN o.keys ELSE keys
             /\ phase' = IF o.err # "" THEN "absent"
                         ELSE IF path = "" THEN "fresh" ELSE "loaded"
    /\ op' = "new_patterns"
    /\ pre' = patterns
    /\ NoRequest
    /\ UNCHANGED << snapshot, catalog, trainX, trainY, stage, conns,
                    classifier, closed >>

\* ChatBotBrain(model_path, pickle_path)
NewBrain ==
    /\ phase = "fresh"
    /\ \E model_path \in PathStates, pickle_path \in PathStates,
          f \in PickleFiles :
         LET o == BrainInit(model_path, pickle_path, f)
         IN  /\ paths' = [ NoPaths EXCEPT !.model = model_path,
                                          !.pickle = pickle_path ]
             /\ pickle' = IF IsFile(pickle_path) THEN f ELSE NoPickle
             /\ err' = o.err
             /\ patterns' = IF o.err = "" THEN o.p ELSE patterns
             /\ keys' = IF o.err = "" THEN o.keys ELSE keys
             /\ phase' = IF o.err # "" THEN "absent"
                         ELSE IF model_path = "" THEN "fresh" ELSE "ready"
    /\ op' = "new_brain"
    /\ pre' = patterns
    /\ NoRequest
    /\ UNCHANGED << snapshot, catalog, trainX, trainY, stage, conns,
                    classifier, closed >>

\* convert_intents(path) on a fresh object or on one built from a pickle
\* file that convert_intents wrote
ConvertIntentsPath ==
    /\ phase \in { "fresh", "loaded" }
    /\ keys = BothKeys
    /\ \E path \in PathStates, c \in Catalogs :
         /\ ~IsFile(path) => c = << >>
         /\ \E o \in ConvertIntentsAt(patterns, snapshot, path, c) :
              /\ paths' = [ NoPaths EXCEPT !.catalog = path ]
              /\ catalog' = c
              /\ pre' = patterns
              /\ patterns' = o.p
              /\ snapshot' = o.file
              /\ trainX' = o.x
              /\ trainY' = o.y
              /\ err' = o.err
              /\ phase' = IF o.err = "" THEN "ready" ELSE "failed"
    /\ op' = "convert_intents"
    /\ NoRequest
    /\ UNCHANGED << keys, pickle, stage, conns, classifier, closed >>

\* convert_sentence(sentence) on an object built from a pickle file
ConvertSentenceLoaded ==
    /\ phase \in { "loaded", "ready" }
    /\ \E s \in Sentences :
         LET o == ConvertSentenceOn(patterns, keys, s)
         IN  /\ sentence' = s
             /\ stemmed' = Stemming(s)
             /\ vec' = o.vec
             /\ err' = o.err
    /\ op' = "convert_sentence"
    /\ results' = << >>
    /\ index' = -1
    /\ intent' = << >>
    /\ ans' = ""
    /\ trainX' = << >>
    /\ trainY' = << >>
    /\ UNCHANGED << patterns, snapshot, phase, catalog, pre, aux >>

\* _get_tag_by_index(index) on an object built from a pickle file
GetTagLoaded ==
    /\ phase \in { "loaded", "ready" }
    /\ \E i \in IndexValues :
         LET o == GetTagByIndexOn(patterns, keys, i)
         IN  /\ index' = i
             /\ intent' = o.tag
             /\ err' = o.err
    /\ op' = "get_tag_by_index"
    /\ sentence' = << >>
    /\ stemmed' = << >>
    /\ vec' = << >>
    /\ results' = << >>
    /\ ans' = ""
    /\ trainX' = << >>
    /\ trainY' = << >>
    /\ UNCHANGED << patterns, snapshot, phase, catalog, pre, aux >>

NextFiles ==
    \/ NewPatterns
    \/ NewBrain
    \/ ConvertIntentsPath
    \/ ConvertSentenceLoaded
    \/ GetTagLoaded

SpecFiles == Init /\ [][NextFiles]_vars

-----------------------------------------------------------------------------
(* The vocabulary of the properties, stated without the operators above *)

Tags(p) == DOMAIN p.tags

\* the tag at 0-based index i of the lexicographically sorted tag keys:
\* the tag that exactly i tags precede
TagAt(p, i) ==
    CHOOSE t \in Tags(p) : Cardinality({ u \in Tags(p) : LexLess(u, t) }) = i

\* the 1-based position of stem s on the sorted, duplicate free stem axis
StemPos(p, s) == Cardinality({ x \in Range(p.stems) : LexLess(x, s) }) + 1

TagPos(p, t) == Cardinality({ u \in Tags(p) : LexLess(u, t) }) + 1

\* strictly increasing: sorted and without duplicates
StrictlySorted(s) == \A i, j \in DOMAIN s : i < j => LexLess(s[i], s[j])

MaxProb(res) == CHOOSE m \in Range(res) : \A x \in Range(res) : x <= m

\* the first (lowest) 0-based index holding the maximum
FirstMax(res) ==
    CHOOSE i \in 0..(Len(res) - 1) :
        /\ res[i + 1] = MaxProb(res)
        /\ \A j \in 0..(i - 1) : res[j + 1] # MaxProb(res)

\* v is the boolean vector of length n true at position i only
IsOneHotAt(v, n, i) == Len(v) = n /\ \A k \in 1..n : v[k] = (k = i)

\* some record of the catalog defines the tag "noanswer"
DefinesNoAnswer(c) ==
    \E i \in DOMAIN c : "tag" \in c[i].keys /\ c[i].tag = NoAnswer

HasNoAnswer(p) == NoAnswer \in Tags(p) /\ p.tags[NoAnswer].answers # << >>

-----------------------------------------------------------------------------
(* C1 *)

\* C1 as stated: on a finalized vocabulary holding "noanswer" with a
\* non-empty answer list, answer(sentence) returns a member of the answer
\* list of the sorted tag at the argmax position when the maximum
\* probability is > 0.9, and a member of the "noanswer" answers otherwise.
C1_AnswerAsStated ==
    (op = "answer" /\ HasNoAnswer(patterns)) =>
        /\ err = ""
        /\ IF MaxProb(results) > 90
           THEN ans \in Range(patterns.tags[TagAt(patterns, FirstMax(results))].answers)
           ELSE ans \in Range(patterns.tags[NoAnswer].answers)

\* C1 amended: the same, provided the answer list of the tag at the argmax
\* position is not empty; when the maximum is > 0.9 and that list is empty,
\* answer() raises and returns nothing.
C1_AnswerPolicy ==
    (op = "answer" /\ HasNoAnswer(patterns)) =>
        IF MaxProb(results) > 90
        THEN LET t == TagAt(patterns, FirstMax(results))
             IN  IF patterns.tags[t].answers # << >>
                 THEN err = "" /\ ans \in Range(patterns.tags[t].answers)
                 ELSE err # "" /\ ans = ""
        ELSE err = "" /\ ans \in Range(patterns.tags[NoAnswer].answers)

\* an answer of another tag than "noanswer" was returned above the
\* threshold, on a vocabulary that holds "noanswer"
C1_Witness ==
    /\ op = "answer"
    /\ HasNoAnswer(patterns)
    /\ MaxProb(results) > 90
    /\ err = ""
    /\ intent # NoAnswer
    /\ ans \notin Range(patterns.tags[NoAnswer].answers)

-----------------------------------------------------------------------------
(* C2 *)

\* C2: _predict returns -1 whenever the maximum probability is <= 0.9
\* (0.9 included) and the index of the maximum whenever it is > 0.9.
C2_PredictThreshold ==
    op = "answer" =>
        IF MaxProb(results) > 90
        THEN /\ index \in 0..(Len(results) - 1)
             /\ results[index + 1] = MaxProb(results)
        ELSE index = -1

\* the maximum is exactly 0.9 and the sentinel was returned
C2_Witness ==
    /\ op = "answer"
    /\ MaxProb(results) = 90
    /\ index = -1

-----------------------------------------------------------------------------
(* C3 *)

\* C3: _get_tag_by_index maps the sentinel -1 to "noanswer" whatever the
\* vocabulary holds, and every index i with 0 <= i < |tags| to the i-th of
\* the lexicographically sorted tag keys.
C3_TagByIndex ==
    op = "get_tag_by_index" =>
        /\ index = -1 => (err = "" /\ intent = NoAnswer)
        /\ (0 <= index /\ index < Cardinality(Tags(patterns))) =>
              /\ err = ""
              /\ intent \in Tags(patterns)
              /\ Cardinality({ u \in Tags(patterns) : LexLess(u, intent) }) = index

\* the sentinel was resolved on a vocabulary of several tags, none of them
\* "noanswer"
C3_Witness ==
    /\ op = "get_tag_by_index"
    /\ index = -1
    /\ Cardinality(Tags(patterns)) >= 2
    /\ NoAnswer \notin Tags(patterns)
    /\ intent = NoAnswer

-----------------------------------------------------------------------------
(* C4 *)

\* the tag an index designates: "noanswer" for the sentinel
DesignatedTag(p, i) == IF i < 0 THEN NoAnswer ELSE TagAt(p, i)

\* C4: for every index resolving to a tag of the vocabulary whose answer
\* list is not empty, choose_answer returns a member of that tag's list.
C4_ChooseAnswerMember ==
    ( /\ op = "choose_answer"
      /\ index < Cardinality(Tags(patterns))
      /\ DesignatedTag(patterns, index) \in Tags(patterns)
      /\ patterns.tags[DesignatedTag(patterns, index)].answers # << >> ) =>
        /\ err = ""
        /\ ans \in Range(patterns.tags[DesignatedTag(patterns, index)].answers)

\* an answer was chosen for a resolved index while another tag holds
\* answers that were not eligible
C4_Witness ==
    /\ op = "choose_answer"
    /\ index >= 0
    /\ err = ""
    /\ ans \in Range(patterns.tags[intent].answers)
    /\ \E t \in Tags(patterns) \ {intent} :
          /\ patterns.tags[t].answers # << >>
          /\ ans \notin Range(patterns.tags[t].answers)

-----------------------------------------------------------------------------
(* C5 *)

\* the global stems are sorted, duplicate free and exactly the union of the
\* tags' stems, each of them sorted and duplicate free
StemsWellFormed(p) ==
    /\ StrictlySorted(p.stems)
    /\ Range(p.stems) = UNION { Range(p.tags[t].stems) : t \in Tags(p) }
    /\ \A t \in Tags(p) : StrictlySorted(p.tags[t].stems)

\* C5: after convert_intents has completed, the global stems list is
\* sorted, without duplicates and exactly the union of every tag's stems,
\* and each tag's stems list is sorted and duplicate free; in memory and in
\* the pickle file written.
C5_StemsSortedUnion ==
    /\ phase = "ready" => StemsWellFormed(patterns)
    /\ snapshot.written => StemsWellFormed(snapshot.content)

\* convert_intents returned for a catalog in which one stem occurs in two
\* patterns of a tag and in two tags, met in another order than the sorted
\* one
C5_Witness ==
    /\ op = "convert_intents"
    /\ err = ""
    /\ catalog = << RHello, RAu >>
    /\ \E t, u \in Tags(patterns) :
          /\ t # u
          /\ Range(patterns.tags[t].stems) \cap Range(patterns.tags[u].stems) # {}
    /\ Len(patterns.stems) = 3
    /\ snapshot = Saved(patterns)

-----------------------------------------------------------------------------
(* C6 *)

\* every record of the catalog is empty or holds the three fields read
Complete(c) ==
    \A i \in DOMAIN c :
        c[i].keys = {} \/ { "tag", "patterns", "responses" } \subseteq c[i].keys

RECURSIVE SumLen(_, _)
\* the sum over the tags of T of the number of stems of the tag
SumLen(p, T) ==
    IF T = {} THEN 0
    ELSE LET t == CHOOSE x \in T : TRUE
         IN  Len(p.tags[t].stems) + SumLen(p, T \ {t})

TrueCount(v) == Cardinality({ k \in DOMAIN v : v[k] })

\* C6 as stated, on the catalogs that define "noanswer": for every such
\* catalog, also one whose tags have no stem at all (only "noanswer", with
\* empty patterns), _make_training_data returns two lists of the same
\* length, the sum over the tags of the number of stems of the tag; every
\* label vector has length |tags| and one true position, every feature
\* vector has length |stems| and one true position.
C6_TrainingDataShape ==
    (op = "convert_intents" /\ Complete(catalog) /\ DefinesNoAnswer(catalog)) =>
        /\ err = ""
        /\ Len(trainX) = SumLen(patterns, Tags(patterns))
        /\ Len(trainY) = Len(trainX)
        /\ \A i \in DOMAIN trainX :
              /\ Len(trainX[i]) = Len(patterns.stems)
              /\ TrueCount(trainX[i]) = 1
              /\ Len(trainY[i]) = Cardinality(Tags(patterns))
              /\ TrueCount(trainY[i]) = 1

-----------------------------------------------------------------------------
(* C7 *)

\* row i of the two lists is the row of tag t and stem s
IsRowOf(i, t, s) ==
    /\ IsOneHotAt(trainX[i], Len(patterns.stems), StemPos(patterns, s))
    /\ IsOneHotAt(trainY[i], Cardinality(Tags(patterns)), TagPos(patterns, t))

\* C7: for every tag t and every stem s of t the training data holds
\* exactly one row whose feature vector is true only at the position of s
\* on the sorted stem axis and whose label vector is true only at the
\* position of t among the sorted tags; the two lists stay aligned: the
\* i-th vectors of both come from one (tag, stem) pair.
C7_TrainingRows ==
    (op = "convert_intents" /\ err = "") =>
        /\ Len(trainX) = Len(trainY)
        /\ \A t \in Tags(patterns) :
              \A s \in Range(patterns.tags[t].stems) :
                 Cardinality({ i \in DOMAIN trainX : IsRowOf(i, t, s) }) = 1
        /\ \A i \in DOMAIN trainX :
              \E t \in Tags(patterns) :
                 \E s \in Range(patterns.tags[t].stems) : IsRowOf(i, t, s)

\* four rows of two tags were returned in an order no generation order
\* gives: the rows of the two tags alternate
C7_Witness ==
    /\ op = "convert_intents"
    /\ err = ""
    /\ Len(trainX) = 4
    /\ trainY[1] = trainY[3]
    /\ trainY[2] = trainY[4]
    /\ trainY[1] # trainY[2]
    /\ trainX[1] = trainX[2]

-----------------------------------------------------------------------------
(* C8 *)

\* C8: convert_sentence returns a boolean vector of length |stems| in which
\* position i is true if and only if the i-th global stem is in the stem
\* set of the text; a word whose stem is not in the vocabulary changes no
\* position and raises nothing.
C8_ConvertSentence ==
    op \in { "convert_sentence", "answer" } =>
        /\ Len(vec) = Len(patterns.stems)
        /\ \A i \in DOMAIN vec :
              vec[i] <=> patterns.stems[i] \in Range(Stemming(sentence))
        /\ op = "convert_sentence" => err = ""

\* a text with a stem of the vocabulary and a stem unknown to it was
\* encoded on a vocabulary that holds a stem the text lacks
C8_Witness ==
    /\ op = "convert_sentence"
    /\ phase = "ready"
    /\ err = ""
    /\ \E i \in DOMAIN vec : vec[i]
    /\ \E i \in DOMAIN vec : ~ vec[i]
    /\ \E s \in Range(Stemming(sentence)) : s \notin Range(patterns.stems)

-----------------------------------------------------------------------------
(* C9 *)

\* C9 as stated: ingesting a catalog that never defines the "noanswer" tag
\* fails: convert_intents raises an error for it (and so returns no
\* training data).
C9_NoAnswerMandatory ==
    (op = "convert_intents" /\ ~ DefinesNoAnswer(catalog)) =>
        /\ err # ""
        /\ trainX = << >>
        /\ trainY = << >>

-----------------------------------------------------------------------------
(* C10 *)

\* a record that holds some field lacks "tag" or "responses"
LacksField(c) ==
    \E i \in DOMAIN c :
        /\ c[i].keys # {}
        /\ "tag" \notin c[i].keys \/ "responses" \notin c[i].keys

\* C10 as stated, for the records that hold some field: when a record of
\* the catalog lacks "tag" or "responses", wherever it stands,
\* convert_intents fails, the vocabulary in memory is the one before the
\* call and no pickle file is written.
C10_MalformedAtomic ==
    (op = "convert_intents" /\ LacksField(catalog)) =>
        /\ err # ""
        /\ patterns = pre
        /\ ~ snapshot.written

-----------------------------------------------------------------------------
\* C11: building Patterns, or ChatBotBrain, from a pickle file whose dict
\* lacks the key "tags" or the key "stems" fails in the constructor: the call
\* raises, and no object holds a dict without one of the two keys.
C11_RestoreValidates ==
    /\ ( /\ op \in { "new_patterns", "new_brain" }
         /\ IsFile(paths.pickle)
         /\ paths.model \in { "", "file" }
         /\ pickle.keys # BothKeys )
       => err # "" /\ phase = "absent"
    /\ keys = BothKeys

-----------------------------------------------------------------------------
(* C12 *)

\* the index designates a tag that is absent from the vocabulary or whose
\* answer list is empty; an index past the last tag designates nothing
DesignatesNoAnswers(p, i) ==
    /\ i < Cardinality(Tags(p))
    /\ \/ DesignatedTag(p, i) \notin Tags(p)
       \/ p.tags[DesignatedTag(p, i)].answers = << >>

-----------------------------------------------------------------------------
(* C13 *)

\* the call was given a path that names no existing file
MissingPath(ps) == \E k \in DOMAIN ps : ps[k] = "missing"

\* C13: when the catalog path given to convert_intents, or the pickle path
\* or the model path given to a constructor, names no existing file, the
\* call raises FileNotFoundError and the step changes neither the vocabulary
\* nor its keys nor the pickle file convert_intents writes.
C13_NotFoundFirst ==
    [][ ( /\ op' \in { "new_patterns", "new_brain", "convert_intents" }
          /\ MissingPath(paths') ) =>
            /\ err' = "FileNotFoundError"
            /\ patterns' = patterns
            /\ keys' = keys
            /\ snapshot' = snapshot ]_vars

\* convert_intents was given a missing catalog path on a vocabulary loaded
\* from a pickle file, and left it as it was
C13_Witness ==
    /\ op = "convert_intents"
    /\ paths.catalog = "missing"
    /\ err = "FileNotFoundError"
    /\ phase = "failed"
    /\ patterns = pre
    /\ Tags(patterns) # {}
    /\ ~ snapshot.written

-----------------------------------------------------------------------------
(* C14 *)

\* the records of the catalog c that carry the tag t
RecordsOf(c, t) == { i \in DOMAIN c : c[i].keys # {} /\ c[i].tag = t }

RECURSIVE ResponsesOf(_, _, _)
\* the responses of the records of tag t among the first n records of the
\* catalog, concatenated in the order of the catalog
ResponsesOf(c, t, n) ==
    IF n = 0 THEN << >>
    ELSE ResponsesOf(c, t, n - 1)
           \o (IF n \in RecordsOf(c, t) THEN c[n].responses ELSE << >>)

\* the stems of all the patterns of all the records of tag t
StemsOfRecords(c, t) ==
    UNION { UNION { Range(Stemming(c[i].patterns[j])) :
                      j \in DOMAIN c[i].patterns } : i \in RecordsOf(c, t) }

\* C14: after the ingestion of a catalog whose records hold their fields,
\* the vocabulary has the tags of the records; the answer list of each tag
\* is the concatenation, in catalog order, of the responses of all the
\* records of that tag, and its stems are the union of the stems of all the
\* patterns of those records.
C14_RepeatedTagsMerge ==
    ( op = "convert_intents" /\ Complete(catalog) ) =>
        /\ Tags(patterns) = { catalog[i].tag : i \in
                                { k \in DOMAIN catalog : catalog[k].keys # {} } }
        /\ \A t \in Tags(patterns) :
              /\ patterns.tags[t].answers = ResponsesOf(catalog, t, Len(catalog))
              /\ Range(patterns.tags[t].stems) = StemsOfRecords(catalog, t)

\* two records of the same tag were ingested: the answers of the second
\* follow those of the first, and the second brought a stem the first lacked
C14_Witness ==
    /\ op = "convert_intents"
    /\ catalog = << RHelloBis, RHello >>
    /\ err = ""
    /\ patterns.tags[Hello].answers = << "h3", "h1", "h2" >>
    /\ Cardinality(Range(patterns.tags[Hello].stems)) = 2
    /\ Cardinality(StemsOfRecords(<< RHelloBis >>, Hello)) = 1

-----------------------------------------------------------------------------
(* C15 *)

\* the pickle file holds the feature axis of the rows returned: each
\* feature vector has the length of the stems of the file, and where it is
\* true the stem of the file at that position belongs, in the file, to the
\* tag the label vector of the row designates
AxisOfSnapshot ==
    \A i \in DOMAIN trainX :
        /\ Len(trainX[i]) = Len(snapshot.content.stems)
        /\ \A k \in DOMAIN trainX[i] :
              trainX[i][k] =>
                \E t \in Tags(snapshot.content) :
                   /\ trainY[i][TagPos(snapshot.content, t)]
                   /\ snapshot.content.stems[k]
                        \in Range(snapshot.content.tags[t].stems)

\* C15: convert_intents writes the pickle file only once the catalog is
\* parsed and the stems are sorted, so the file holds the sorted axis the
\* training data is built on; the object built from that file is equivalent
\* to the one that wrote it: convert_sentence gives the same vector for every
\* sentence and _get_tag_by_index the same tag for every index.
C15_RestoreEquivalent ==
    /\ ( op = "convert_intents" /\ snapshot.written ) =>
          /\ err \in { "", "IndexError" }
          /\ StemsWellFormed(snapshot.content)
          /\ AxisOfSnapshot
    /\ ( op = "restore" ) =>
          /\ err = ""
          /\ \A s \in Sentences :
                ConvertSentenceVec(patterns, s) = ConvertSentenceVec(pre, s)
          /\ \A i \in IndexValues :
                GetTagByIndex(patterns, i) = GetTagByIndex(pre, i)

\* an object was built from the file of a vocabulary of two tags whose stems
\* were met in an order that is not the sorted one
C15_Witness ==
    /\ op = "restore"
    /\ err = ""
    /\ catalog = << RNoAnswer, RHello >>
    /\ phase = "ready"
    /\ patterns.stems = << Stemming(TextZooChats)[2], Stemming(TextZooChats)[1] >>
    /\ GetTagByIndex(patterns, 0).tag = Hello

-----------------------------------------------------------------------------
(* C16 *)

\* C16: a call of convert_sentence, choose_answer or answer leaves the
\* vocabulary, its keys and the pickle file as they were; and when two
\* encodings of the same sentence follow each other, by convert_sentence or
\* within answer, the second vector is the first.
C16_RequestsReadOnly ==
    [][ /\ op' \in { "convert_sentence", "choose_answer", "answer" } =>
              /\ patterns' = patterns
              /\ keys' = keys
              /\ snapshot' = snapshot
        /\ ( /\ op \in { "convert_sentence", "answer" }
             /\ op' \in { "convert_sentence", "answer" }
             /\ sentence' = sentence ) => vec' = vec
      ]_vars

\* answer was called with a sentence of which the vocabulary knows one stem
\* and lacks another, and the vocabulary is still the one that was saved
C16_Witness ==
    /\ op = "answer"
    /\ phase = "ready"
    /\ patterns = snapshot.content
    /\ \E w \in Range(stemmed) : w \in Range(patterns.stems)
    /\ \E w \in Range(stemmed) : w \notin Range(patterns.stems)
    /\ \E k \in DOMAIN vec : vec[k]

-----------------------------------------------------------------------------
(* wschatbot: the websocket server. One coroutine answer(websocket, path)
   runs per connection over the one global model; the event loop passes from
   one coroutine to another only at an await that suspends, so what runs
   between two such awaits is one step *)

MaxConns == 2

\* the connections open at the same time
Conns == 1..MaxConns

\* sanitize keeps the first MsgLimit characters of the stripped message
MsgLimit == 256

\* " <zo\o>"
MsgMarkup == << 32, 60, 122, 111, 92, 111, 62 >>

\* the messages the clients send
WsMessages == { TextZooChats, TextLeChat, MsgMarkup }

\* the characters str.strip removes, among those of the messages
IsSpace(c) == c \in { 9, 10, 11, 12, 13, 32 }

RECURSIVE LStrip(_)
LStrip(m) == IF m # << >> /\ IsSpace(Head(m)) THEN LStrip(Tail(m)) ELSE m

RECURSIVE RStrip(_)
RStrip(m) ==
    IF m # << >> /\ IsSpace(m[Len(m)])
    THEN RStrip(SubSeq(m, 1, Len(m) - 1))
    ELSE m

\* str.strip
Strip(m) == RStrip(LStrip(m))

\* html.escape on one character: & < > " '
Escape(c) ==
    CASE c = 38 -> << 38, 97, 109, 112, 59 >>               \* &amp;
      [] c = 60 -> << 38, 108, 116, 59 >>                   \* &lt;
      [] c = 62 -> << 38, 103, 116, 59 >>                   \* &gt;
      [] c = 34 -> << 38, 113, 117, 111, 116, 59 >>         \* &quot;
      [] c = 39 -> << 38, 35, 120, 50, 55, 59 >>            \* &#x27;
      [] OTHER  -> << c >>

\* sanitize(msg)
Sanitize(m) ==
    IF m = << >> THEN << >>
    ELSE LET stripped == Strip(m)
             cut      == SubSeq(stripped, 1, Min(Len(stripped), MsgLimit))
             plain    == SelectSeq(cut, LAMBDA c : c # 92)
         IN  Flatten([ i \in 1..Len(plain) |-> Escape(plain[i]) ])

\* the vocabularies the server is started on
WsVocabularies ==
    { Finalized(<< RNoAnswer, RHello >>),
      Finalized(<< RNoAnswer, RHello, RAu >>) }

\* the feature vectors of the messages
VecsOf(p) == { ConvertSentenceVec(p, Sanitize(m)) : m \in WsMessages }

\* a fitted model that is sure of the first sorted tag owning a stem of the
\* vector, and of no tag when no stem is set
ByStem(p, v) ==
    LET tags   == GetAllTags(p)
        hit(k) == \E i \in DOMAIN v :
                     v[i] /\ p.stems[i] \in Range(p.tags[tags[k]].stems)
    IN  [ k \in 1..Len(tags) |->
            IF hit(k) /\ \A j \in 1..(k - 1) : ~hit(j) THEN 95 ELSE 0 ]

\* the fitted models the server is started on; predict is a function of the
\* feature vector: the model sure of a tag by its stems, the model sure of
\* nothing, the model always sure of the tag before the last
Classifiers(p) ==
    { [ v \in VecsOf(p) |-> ByStem(p, v) ],
      [ v \in VecsOf(p) |-> [ k \in 1..Len(GetAllTags(p)) |-> Threshold ] ],
      [ v \in VecsOf(p) |->
          [ k \in 1..Len(GetAllTags(p)) |->
              IF k = Len(GetAllTags(p)) - 1 THEN 95 ELSE 0 ] ] }

\* model.answer(msg) for the fitted model cl: the answers it can return, or
\* the exception it raises
AnswerOutcomes(p, cl, s) ==
    ChooseAnswerOutcomes(p, Predict(cl[ConvertSentenceVec(p, s)]))

\* one frame of locals for all the handlers
FrameShared(c) == 1

\* the frame that holds msg and ans of the handler of connection c: each
\* call of the coroutine function answer has its own
Frame(c) == c

\* a connection before its first message: the handler awaits recv
NewConn ==
    [ pc |-> "recv", msg |-> << >>, ans |-> "", err |-> "",
      sent |-> << >>, got |-> "" ]

\* a connection the client has not closed
StillOpen == [ shut |-> FALSE, raised |-> 0 ]

InitWs ==
    /\ patterns \in WsVocabularies
    /\ classifier \in Classifiers(patterns)
    /\ closed = [ c \in Conns |-> StillOpen ]
    /\ conns = [ c \in Conns |-> NewConn ]
    /\ snapshot = Saved(patterns)
    /\ phase = "ready"
    /\ op = "serve"
    /\ err = ""
    /\ catalog = << >>
    /\ pre = patterns
    /\ sentence = << >>
    /\ vec = << >>
    /\ results = << >>
    /\ index = -1
    /\ intent = << >>
    /\ ans = ""
    /\ trainX = << >>
    /\ trainY = << >>
    /\ stemmed = << >>
    /\ keys = BothKeys
    /\ paths = [ NoPaths EXCEPT !.model = "file", !.pickle = "file" ]
    /\ pickle = [ keys |-> BothKeys, content |-> patterns ]
    /\ stage = "Idle"

\* what the steps of the server leave alone
WsFrame ==
    UNCHANGED << patterns, snapshot, phase, op, err, catalog, pre, sentence,
                 vec, results, index, intent, ans, trainX, trainY, stemmed,
                 keys, paths, pickle, stage, classifier >>

\* recv returns the message m the client of connection c sent; treat
\* sanitizes it and calls model.answer, which suspends nowhere; the handler
\* then awaits send, or ends with the exception model.answer raised
WsRecv(c) ==
    /\ ~ closed[c].shut
    /\ conns[Frame(c)].pc = "recv"
    /\ \E m \in WsMessages :
         \E o \in AnswerOutcomes(patterns, classifier, Sanitize(m)) :
            conns' = [ conns EXCEPT
                         ![c].sent = m,
                         ![c].got = "",
                         ![Frame(c)].msg = m,
                         ![Frame(c)].ans = o.ans,
                         ![Frame(c)].err = o.err,
                         ![Frame(c)].pc = IF o.err = "" THEN "send"
                                          ELSE "ended" ]
    /\ UNCHANGED closed
    /\ WsFrame

\* send completes: the client of connection c gets ans, and the handler
\* loops to recv
WsSend(c) ==
    /\ ~ closed[c].shut
    /\ conns[Frame(c)].pc = "send"
    /\ conns' = [ conns EXCEPT
                    ![c].got = conns[Frame(c)].ans,
                    ![Frame(c)].pc = "recv" ]
    /\ UNCHANGED closed
    /\ WsFrame

NextWs == \E c \in Conns : WsRecv(c) \/ WsSend(c)

SpecWs == InitWs /\ [][NextWs]_vars

-----------------------------------------------------------------------------
(* C17 *)

\* the answers the message the client of connection c sent can get: those
\* of the tag the fitted model designates for that message on the vocabulary
OwnAnswers(c) ==
    LET res == classifier[ConvertSentenceVec(patterns, Sanitize(conns[c].sent))]
        i   == IF MaxProb(res) > Threshold THEN FirstMax(res) ELSE -1
    IN  Range(patterns.tags[DesignatedTag(patterns, i)].answers)

-----------------------------------------------------------------------------
(* C18 *)

\* the first of the sorted tags other than "noanswer"
FirstOtherTag(p) ==
    CHOOSE t \in Tags(p) \ { NoAnswer } :
        \A u \in Tags(p) \ { NoAnswer } : u = t \/ LexLess(t, u)

\* C18: on a vocabulary built from a catalog that defines "noanswer", where
\* every tag has answers, index 0 designates "noanswer": choose_answer(0)
\* returns one of the answers of "noanswer", as choose_answer(-1) does, and
\* choose_answer(1) returns an answer of the first other tag.
C18_IndexZeroIsNoAnswer ==
    ( /\ op = "choose_answer"
      /\ phase = "ready"
      /\ DefinesNoAnswer(catalog)
      /\ \A t \in Tags(patterns) : patterns.tags[t].answers # << >>
      /\ Tags(patterns) # { NoAnswer } ) =>
        /\ index \in { -1, 0 } =>
              /\ err = ""
              /\ ans \in Range(patterns.tags[NoAnswer].answers)
        /\ index = 1 =>
              /\ err = ""
              /\ ans \in Range(patterns.tags[FirstOtherTag(patterns)].answers)

-----------------------------------------------------------------------------
(* One answer() request, step by step: the call of answer, convert_sentence,
   _predict, _get_tag_by_index, random.choice *)

\* the vocabularies the requests are made on
ReqVocabularies == WsVocabularies \cup { Finalized(<< RHello >>) }

\* the branch with the test of _get_tag_by_index inverted at 0
BranchOfStrict(i) == IF i > 0 THEN "Resolved" ELSE "Fallback"

\* the branch of the conditional expression of _get_tag_by_index
BranchOf(i) == IF i >= 0 THEN "Resolved" ELSE "Fallback"

InitReq ==
    /\ patterns \in ReqVocabularies
    /\ snapshot = Saved(patterns)
    /\ phase = "ready"
    /\ op = "init"
    /\ err = ""
    /\ catalog = << >>
    /\ pre = patterns
    /\ sentence = << >>
    /\ vec = << >>
    /\ results = << >>
    /\ index = -1
    /\ intent = << >>
    /\ ans = ""
    /\ trainX = << >>
    /\ trainY = << >>
    /\ stemmed = << >>
    /\ keys = BothKeys
    /\ paths = [ NoPaths EXCEPT !.model = "file", !.pickle = "file" ]
    /\ pickle = [ keys |-> BothKeys, content |-> patterns ]
    /\ stage = "Idle"
    /\ conns = << >>
    /\ classifier = << >>
    /\ closed = << >>

\* what the steps of a request leave alone
ReqFrame ==
    UNCHANGED << patterns, snapshot, phase, catalog, pre, trainX, trainY,
                 keys, paths, pickle, conns, classifier, closed >>

\* answer(sentence) is called, once the request before it has ended
ReqReceive ==
    /\ stage \in { "Idle", "Answered", "Raised" }
    /\ \E s \in Sentences : sentence' = s
    /\ stage' = "Received"
    /\ op' = "answer"
    /\ err' = ""
    /\ stemmed' = << >>
    /\ vec' = << >>
    /\ results' = << >>
    /\ index' = -1
    /\ intent' = << >>
    /\ ans' = ""
    /\ ReqFrame

\* _which_intent: convert_sentence(sentence) returns the vector
ReqEncode ==
    /\ stage = "Received"
    /\ stemmed' = Stemming(sentence)
    /\ vec' = ConvertSentenceVec(patterns, sentence)
    /\ stage' = "Encoded"
    /\ UNCHANGED << op, err, sentence, results, index, intent, ans >>
    /\ ReqFrame

\* _predict: the model returns one probability per tag, the index or the
\* sentinel is returned
ReqClassify ==
    /\ stage = "Encoded"
    /\ \E res \in [ 1..Len(GetAllTags(patterns)) -> ProbValues ] :
         /\ results' = res
         /\ index' = Predict(res)
    /\ stage' = "Classified"
    /\ UNCHANGED << op, err, sentence, stemmed, vec, intent, ans >>
    /\ ReqFrame

\* choose_answer: _get_tag_by_index(index) returns the tag
ReqResolve ==
    /\ stage = "Classified"
    /\ LET t == GetTagByIndex(patterns, index)
       IN  /\ intent' = t.tag
           /\ err' = t.err
           /\ stage' = IF t.err # "" THEN "Raised" ELSE BranchOf(index)
    /\ UNCHANGED << op, sentence, stemmed, vec, results, index, ans >>
    /\ ReqFrame

\* choose_answer: random.choice(_get_answers(intent)) returns the answer,
\* or the call raises
ReqChoose ==
    /\ stage \in { "Resolved", "Fallback" }
    /\ LET a == GetAnswers(patterns, intent)
       IN  IF a.err # "" \/ a.answers = << >>
           THEN /\ ans' = ""
                /\ err' = IF a.err # "" THEN a.err ELSE "IndexError"
                /\ stage' = "Raised"
           ELSE /\ \E k \in DOMAIN a.answers : ans' = a.answers[k]
                /\ err' = ""
                /\ stage' = "Answered"
    /\ UNCHANGED << op, sentence, stemmed, vec, results, index, intent >>
    /\ ReqFrame

NextReq ==
    \/ ReqReceive
    \/ ReqEncode
    \/ ReqClassify
    \/ ReqResolve
    \/ ReqChoose

\* a call that has begun runs to its end: the steps after the call are
\* straight-line code over finite lists, and nothing in them waits
SpecReq ==
    /\ InitReq
    /\ [][NextReq]_vars
    /\ WF_vars(ReqEncode)
    /\ WF_vars(ReqClassify)
    /\ WF_vars(ReqResolve)
    /\ WF_vars(ReqChoose)

-----------------------------------------------------------------------------
(* C19 *)

\* "noanswer" is a tag of the vocabulary and every tag has answers
WellFormedVocab(p) ==
    /\ HasNoAnswer(p)
    /\ \A t \in Tags(p) : p.tags[t].answers # << >>

\* the moves of a request from one step to the next, and from the end of a
\* request to the next request
StepOrder ==
    { << "Idle", "Received" >>, << "Received", "Encoded" >>,
      << "Encoded", "Classified" >>, << "Classified", "Resolved" >>,
      << "Classified", "Fallback" >>, << "Resolved", "Answered" >>,
      << "Fallback", "Answered" >>, << "Answered", "Received" >> }

\* C19: on a vocabulary where "noanswer" and every other tag have answers,
\* a request goes through Received, Encoded, Classified, then Resolved or
\* Fallback, then Answered, in that order and by no other move; it is in
\* Fallback exactly when _predict returned the sentinel, in Resolved exactly
\* when it returned an index; and every request received is answered.
C19_RequestSteps ==
    /\ [][ ( WellFormedVocab(patterns) /\ stage' # stage ) =>
              << stage, stage' >> \in StepOrder ]_vars
    /\ []( ( WellFormedVocab(patterns) /\ stage \in { "Resolved", "Fallback" } )
              => ( /\ (stage = "Fallback") <=> (index = -1)
                   /\ (stage = "Resolved") <=> (index >= 0) ) )
    /\ ( WellFormedVocab(patterns) /\ stage = "Received" ) ~> ( stage = "Answered" )

\* a request whose maximal probability did not pass the threshold was
\* answered through the fallback, on a vocabulary of which the sentence sets
\* a stem
C19_Witness ==
    /\ WellFormedVocab(patterns)
    /\ stage = "Answered"
    /\ index = -1
    /\ MaxProb(results) = Threshold
    /\ intent = NoAnswer
    /\ ans \in Range(patterns.tags[NoAnswer].answers)
    /\ \E k \in DOMAIN vec : vec[k]

-----------------------------------------------------------------------------
(* C20 *)

\* the stems of a text when every token is lower-cased first: the tokens
\* whose lower-cased form is a stop-word are dropped, the others are
\* stemmed from their lower-cased form
StemsLowerFirst(text) ==
    LET lowered == [ i \in 1..Len(Tokenize(text)) |-> Lower(Tokenize(text)[i]) ]
        kept    == SelectSeq(lowered, LAMBDA w : w \notin StopList)
    IN  [ i \in 1..Len(kept) |-> Stem(kept[i]) ]

\* C20: _stemming lower-cases every token before the stop-word test: the
\* stems convert_sentence works on are those of the lower-cased tokens that
\* are no stop-words, whatever the capitals of the sentence.
C20_LowerBeforeStopTest ==
    op \in { "convert_sentence", "answer" } =>
        stemmed = StemsLowerFirst(sentence)

-----------------------------------------------------------------------------
(* C21 *)

\* the 0-based positions of the probability vector that hold its maximum
TiedAtMax(res) == { i \in 0..(Len(res) - 1) : res[i + 1] = MaxProb(res) }

\* C21: when several positions of the probability vector hold the maximum,
\* _predict takes the lowest of them and tests the threshold there: above
\* 0.9 the index returned is below every other tied position and the tag
\* resolved is the lexicographically lowest of the tied tags; otherwise the
\* sentinel is returned.
C21_TiesFirstIndex ==
    ( op = "answer" /\ Cardinality(TiedAtMax(results)) > 1 ) =>
        IF MaxProb(results) > Threshold
        THEN /\ index \in TiedAtMax(results)
             /\ \A j \in TiedAtMax(results) : index <= j
             /\ intent = TagAt(patterns, index)
             /\ \A j \in TiedAtMax(results) \ { index } :
                   LexLess(intent, TagAt(patterns, j))
        ELSE index = -1

\* two tags shared a maximum above the threshold, and the answer came from
\* the first of them
C21_Witness ==
    /\ op = "answer"
    /\ err = ""
    /\ Cardinality(TiedAtMax(results)) > 1
    /\ MaxProb(results) > Threshold
    /\ index = 0
    /\ ans \in Range(patterns.tags[TagAt(patterns, 0)].answers)

-----------------------------------------------------------------------------
(* wschatbot when clients close their connections: recv and send raise
   ConnectionClosed on a closed connection, and the handler catches it
   inside its loop *)

\* how many times a handler is followed through the except clause
MaxClosedRaises == 2

\* the client of connection c closes it
WsClose(c) ==
    /\ ~ closed[c].shut
    /\ conns[Frame(c)].pc \in { "recv", "send" }
    /\ closed' = [ closed EXCEPT ![c].shut = TRUE ]
    /\ UNCHANGED conns
    /\ WsFrame

\* recv raises ConnectionClosed; the except clause passes and the while
\* loop calls recv again
WsRecvClosed(c) ==
    /\ closed[c].shut
    /\ conns[Frame(c)].pc = "recv"
    /\ closed[c].raised < MaxClosedRaises
    /\ closed' = [ closed EXCEPT ![c].raised = @ + 1 ]
    /\ UNCHANGED conns
    /\ WsFrame

\* send raises ConnectionClosed: the client gets nothing; the except clause
\* passes and the while loop calls recv
WsSendClosed(c) ==
    /\ closed[c].shut
    /\ conns[Frame(c)].pc = "send"
    /\ closed[c].raised < MaxClosedRaises
    /\ closed' = [ closed EXCEPT ![c].raised = @ + 1 ]
    /\ conns' = [ conns EXCEPT ![Frame(c)].pc = "recv" ]
    /\ WsFrame

NextWsClose ==
    \E c \in Conns :
        \/ WsRecv(c)
        \/ WsSend(c)
        \/ WsClose(c)
        \/ WsRecvClosed(c)
        \/ WsSendClosed(c)

SpecWsClose == InitWs /\ [][NextWsClose]_vars

-----------------------------------------------------------------------------
(* C22 *)

\* C22: once the connection of a client is closed and the handler has met
\* ConnectionClosed, the handler has returned: it is not back at recv, it
\* meets ConnectionClosed no second time, and it has no reply to send; and
\* the reply a handler is about to send is for the message it received.
C22_HandlerReturns ==
    \A c \in DOMAIN closed :
        /\ closed[c].raised >= 1 => conns[c].pc \in { "returned", "ended" }
        /\ closed[c].raised <= 1
        /\ conns[c].pc = "send" => conns[c].msg = conns[c].sent

=============================================================================
